---- MODULE Spec2Model ----
(***************************************************************************)
(* A model of the recallist service: the Item State Engine                 *)
(* (src/lambda/db_service/dynamo.py, src/lambda/recallist.py,              *)
(* src/lambda/api_app.py) over a DynamoDB item table, the Identity         *)
(* Resolver (src/lambda_authorizer/main.py), and the request id of the     *)
(* logging module (src/lambda/utils/logging.py, src/lambda/app.py).        *)
(*                                                                         *)
(* An item text is a sequence of one-character strings.  A DynamoDB item   *)
(* is a function from attribute names to values: an attribute the code     *)
(* omits is outside its DOMAIN.  Python's None is the empty tuple and an   *)
(* Optional value x that is present is <<x>>.                              *)
(***************************************************************************)
EXTENDS Naturals, Sequences, FiniteSets, TLC

VARIABLES item_table, clock, req, api_keys_table, environ, auth,
          _request_id_context, uuids, middleware, logged

itemVars == <<item_table, clock, req>>
authVars == <<api_keys_table, environ, auth>>
logVars == <<_request_id_context, uuids, middleware, logged>>
vars == <<itemVars, authVars, logVars>>

---------------------------------------------------------------------------
(* Bounds *)

\* the wall clock runs from 0 to MaxClock
MaxClock == 2
\* the number of request slots (requests that can be in flight together)
NumProcs == 2
\* the longest item text of the text scenario
MaxLen == 3
\* the number of requests the process handles in the logging scenario
MaxRequests == 3
\* the most items one call of Query evaluates (the 1 MB of a page)
MaxPageItems == 2
\* the most credential mappings one call of Scan reads (the 1 MB of a page)
ScanPageItems == 3

---------------------------------------------------------------------------
(* Values *)

None == <<>>
Some(x) == <<x>>

Alphabet == {"a", "A", "b", " "}
Users == {"u1", "u2"}
Procs == 1..NumProcs

RECURSIVE SeqsUpTo(_, _)
SeqsUpTo(S, n) ==
    IF n = 0 THEN {<<>>}
    ELSE LET shorter == SeqsUpTo(S, n - 1)
         IN  shorter \cup {Append(s, c) : s \in {x \in shorter : Len(x) = n - 1}, c \in S}

\* the texts of the main specification: the empty text and every one-character text
ItemTexts == {<<>>} \cup {<<c>> : c \in Alphabet}
\* the texts of the text scenario
LongTexts == SeqsUpTo(Alphabet, MaxLen)

---------------------------------------------------------------------------
(* Python str methods, on sequences of characters *)

\* str.isspace of one character
IsSpace(c) == c = " "

\* str.lower of one character
LowerChar(c) == IF c = "A" THEN "a" ELSE c

\* str.upper of one character
UpperChar(c) == IF c = "a" THEN "A" ELSE c

\* str.lower
lower(s) == [i \in 1..Len(s) |-> LowerChar(s[i])]

RECURSIVE lstrip(_)
lstrip(s) == IF s # <<>> /\ IsSpace(Head(s)) THEN lstrip(Tail(s)) ELSE s

RECURSIVE rstrip(_)
rstrip(s) ==
    IF s # <<>> /\ IsSpace(s[Len(s)]) THEN rstrip(SubSeq(s, 1, Len(s) - 1)) ELSE s

\* str.strip
strip(s) == rstrip(lstrip(s))

---------------------------------------------------------------------------
(* src/lambda/db_service/dynamo.py *)

\* dict.get(attr): the attribute's value, None when the item lacks it
Attr(db_obj, attr) == IF attr \in DOMAIN db_obj THEN Some(db_obj[attr]) ELSE None

\* (mutant) a table keyed by the item alone
mut_PrimaryKey_item_only(user_id, norm) == <<"", norm>>

\* the primary key of the item table: hash key user_id, range key item
PrimaryKey(user_id, norm) == <<user_id, norm>>

\* (mutant) the key is trimmed but keeps its case
mut_normalize_no_lower(item) == strip(item)

\* (item or "").strip().lower(); a text of the model is never None
_normalize_item_key(item) == lower(strip(item))

\* now_iso(): the current time of the wall clock
now_iso == clock

\* the outcome of one call of a data access function: the table after it, the
\* exception it raised ("" when it returned) and its return value
Outcome(tbl, raised, ret) == [tbl |-> tbl, raised |-> raised, ret |-> ret]

\* a boto3 call the backing store fails (throttling, outage) raises an error that
\* is not a failed condition check, and changes nothing
StoreError == "StoreError"
ConditionalCheckFailed == "ConditionalCheckFailedException"

get_item(tbl, user_id, item, fault) ==
    LET norm == _normalize_item_key(item)
        key  == PrimaryKey(user_id, norm)
    IN  IF fault THEN Outcome(tbl, StoreError, None)
        ELSE IF key \in DOMAIN tbl THEN Outcome(tbl, "", Some(tbl[key]))
        ELSE Outcome(tbl, "", None)

\* the place of a character in the order of the sort key (its code point)
CharRank(c) == CASE c = " " -> 32 [] c = "A" -> 65 [] c = "a" -> 97 [] c = "b" -> 98

\* the range key x sorts before the range key y
RECURSIVE SortsBefore(_, _)
SortsBefore(x, y) ==
    IF y = <<>> THEN FALSE
    ELSE IF x = <<>> THEN TRUE
    ELSE IF Head(x) = Head(y) THEN SortsBefore(Tail(x), Tail(y))
    ELSE CharRank(Head(x)) < CharRank(Head(y))

\* the items of the keys S in the order of their range keys
RECURSIVE InKeyOrder(_, _)
InKeyOrder(tbl, S) ==
    IF S = {} THEN <<>>
    ELSE LET first == CHOOSE k \in S : \A j \in S \ {k} : SortsBefore(k[2], j[2])
         IN  <<tbl[first]>> \o InKeyOrder(tbl, S \ {first})

\* the partition of a user: what Key("user_id").eq(user_id) selects
Partition(tbl, user_id) == InKeyOrder(tbl, {k \in DOMAIN tbl : k[1] = user_id})

Min(a, b) == IF a <= b THEN a ELSE b

\* the sizes a page can have
PageSizes == 1..MaxPageItems

\* FilterExpression=Attr("status").ne("RESOLVED"), applied to the items the page
\* evaluated
Unresolved(page) == SelectSeq(page, LAMBDA i : Attr(i, "status") # Some("RESOLVED"))

\* one call of item_table.query that evaluates n items of the partition after
\* ExclusiveStartKey; a key is the place of its item in the partition, and the
\* response has a LastEvaluatedKey when items are left
query(partition, ExclusiveStartKey, n, filtered) ==
    LET last == Min(ExclusiveStartKey + n, Len(partition))
        page == SubSeq(partition, ExclusiveStartKey + 1, last)
    IN  [Items |-> IF filtered THEN Unresolved(page) ELSE page,
         LastEvaluatedKey |-> IF last < Len(partition) THEN Some(last) ELSE None]

\* while 'LastEvaluatedKey' in resp: the lists the loop can end with, one for
\* each way the store cuts the rest of the partition into pages
RECURSIVE query_more(_, _, _, _)
query_more(partition, resp, items, filtered) ==
    IF resp.LastEvaluatedKey = None THEN {items}
    ELSE UNION {LET more == query(partition, resp.LastEvaluatedKey[1], n, filtered)
                IN  query_more(partition, more, items \o more.Items, filtered)
                  : n \in PageSizes}

\* (mutant) the first page only
mut_list_items_first_page(tbl, user_id, fault) ==
    IF fault THEN {Outcome(tbl, StoreError, <<>>)}
    ELSE {Outcome(tbl, "", query(Partition(tbl, user_id), 0, n, FALSE).Items) : n \in PageSizes}

\* the outcomes of list_items, one for each way the store pages the partition
list_items(tbl, user_id, fault) ==
    IF fault THEN {Outcome(tbl, StoreError, <<>>)}
    ELSE UNION {LET resp == query(Partition(tbl, user_id), 0, n, FALSE)
                IN  {Outcome(tbl, "", items)
                       : items \in query_more(Partition(tbl, user_id), resp, resp.Items, FALSE)}
                  : n \in PageSizes}

\* (mutant) the query without the FilterExpression
mut_list_unresolved_items_no_filter(tbl, user_id, fault) ==
    IF fault THEN {Outcome(tbl, StoreError, <<>>)}
    ELSE UNION {LET resp == query(Partition(tbl, user_id), 0, n, FALSE)
                IN  {Outcome(tbl, "", items)
                       : items \in query_more(Partition(tbl, user_id), resp, resp.Items, FALSE)}
                  : n \in PageSizes}

list_unresolved_items(tbl, user_id, fault) ==
    IF fault THEN {Outcome(tbl, StoreError, <<>>)}
    ELSE UNION {LET resp == query(Partition(tbl, user_id), 0, n, TRUE)
                IN  {Outcome(tbl, "", items)
                       : items \in query_more(Partition(tbl, user_id), resp, resp.Items, TRUE)}
                  : n \in PageSizes}

\* the outcomes random.choice allows
get_random_unresolved(tbl, user_id, fault) ==
    UNION {IF items.raised # "" THEN {Outcome(tbl, items.raised, None)}
           ELSE IF items.ret = <<>> THEN {Outcome(tbl, "", None)}
           ELSE {Outcome(tbl, "", Some(items.ret[i])) : i \in 1..Len(items.ret)}
             : items \in list_unresolved_items(tbl, user_id, fault)}

\* (mutant) put_item without the ConditionExpression: an upsert
mut_put_item_unconditional(tbl, user_id, item, created_iso, now, fault) ==
    LET norm == _normalize_item_key(item)
        new_item == [user_id |-> user_id, item |-> norm, display_item |-> item,
                     status |-> "NEW",
                     createdDate |-> IF created_iso = None THEN now ELSE created_iso[1]]
        key == PrimaryKey(user_id, norm)
    IN  IF fault THEN Outcome(tbl, StoreError, None)
        ELSE Outcome((key :> new_item) @@ tbl, "", Some(new_item))

put_item_if_absent(tbl, user_id, item, created_iso, now, fault) ==
    LET norm == _normalize_item_key(item)
        new_item == [user_id |-> user_id, item |-> norm, display_item |-> item,
                     status |-> "NEW",
                     createdDate |-> IF created_iso = None THEN now ELSE created_iso[1]]
        key == PrimaryKey(user_id, norm)
    IN  IF fault THEN Outcome(tbl, StoreError, None)
        ELSE IF key \in DOMAIN tbl THEN Outcome(tbl, ConditionalCheckFailed, None)
        ELSE Outcome((key :> new_item) @@ tbl, "", Some(new_item))

\* (mutant) delete_item without the ConditionExpression: deleting nothing succeeds
mut_delete_item_unconditional(tbl, user_id, item, fault) ==
    LET norm == _normalize_item_key(item)
        key  == PrimaryKey(user_id, norm)
    IN  IF fault THEN Outcome(tbl, "", FALSE)
        ELSE Outcome([k \in DOMAIN tbl \ {key} |-> tbl[k]], "", TRUE)

delete_item(tbl, user_id, item, fault) ==
    LET norm == _normalize_item_key(item)
        key  == PrimaryKey(user_id, norm)
    IN  IF fault \/ key \notin DOMAIN tbl THEN Outcome(tbl, "", FALSE)
        ELSE Outcome([k \in DOMAIN tbl \ {key} |-> tbl[k]], "", TRUE)

\* (mutant) update_item without the ConditionExpression: resolving an absent key
\* creates an item
mut_mark_resolved_upsert(tbl, user_id, item, resolution_iso, now, fault) ==
    LET norm == _normalize_item_key(item)
        key  == PrimaryKey(user_id, norm)
        rd   == IF resolution_iso = None THEN now ELSE resolution_iso[1]
        old  == IF key \in DOMAIN tbl THEN tbl[key] ELSE [user_id |-> user_id, item |-> norm]
        updated == [status |-> "RESOLVED", resolutionDate |-> rd] @@ old
    IN  IF fault THEN Outcome(tbl, "", None)
        ELSE Outcome((key :> updated) @@ tbl, "", Some(updated))

\* (mutant) the update sets the status and leaves resolutionDate out
mut_mark_resolved_no_date(tbl, user_id, item, resolution_iso, now, fault) ==
    LET norm == _normalize_item_key(item)
        key  == PrimaryKey(user_id, norm)
    IN  IF fault \/ key \notin DOMAIN tbl THEN Outcome(tbl, "", None)
        ELSE LET updated == [tbl[key] EXCEPT !.status = "RESOLVED"]
             IN  Outcome([tbl EXCEPT ![key] = updated], "", Some(updated))

\* (mutant) the update also sets display_item, to the key
mut_mark_resolved_sets_display(tbl, user_id, item, resolution_iso, now, fault) ==
    LET norm == _normalize_item_key(item)
        key  == PrimaryKey(user_id, norm)
        rd   == IF resolution_iso = None THEN now ELSE resolution_iso[1]
    IN  IF fault \/ key \notin DOMAIN tbl THEN Outcome(tbl, "", None)
        ELSE LET updated == [status |-> "RESOLVED", resolutionDate |-> rd,
                             display_item |-> norm] @@ tbl[key]
             IN  Outcome([tbl EXCEPT ![key] = updated], "", Some(updated))

mark_resolved(tbl, user_id, item, resolution_iso, now, fault) ==
    LET norm == _normalize_item_key(item)
        key  == PrimaryKey(user_id, norm)
        rd   == IF resolution_iso = None THEN now ELSE resolution_iso[1]
    IN  IF fault \/ key \notin DOMAIN tbl THEN Outcome(tbl, "", None)
        ELSE LET updated == [status |-> "RESOLVED", resolutionDate |-> rd] @@ tbl[key]
             IN  Outcome([tbl EXCEPT ![key] = updated], "", Some(updated))

---------------------------------------------------------------------------
(* src/lambda/recallist.py: the service layer *)

\* the places of the authorizer context get_current_user reads, in its order:
\* authorizer.user_id, authorizer.lambda.user_id, authorizer.jwt.claims.sub,
\* authorizer.claims.sub.  An authorizer context is a function from these places
\* to Optional strings: None where the place is missing, or where lambda, jwt or
\* claims is no dict
Places == <<"user_id", "lambda.user_id", "jwt.claims.sub", "claims.sub">>

\* Python takes the value as true
Truthy(v) == v # None /\ v # Some("")

\* (mutant) no check of the user_id at the end
mut_get_current_user_no_check(authz) ==
    LET direct  == IF Truthy(authz["user_id"]) THEN authz["user_id"] ELSE None
        lambda  == IF ~Truthy(direct) THEN authz["lambda.user_id"] ELSE direct
        jwt     == IF ~Truthy(lambda) THEN authz["jwt.claims.sub"] ELSE lambda
        legacy  == IF ~Truthy(jwt) THEN authz["claims.sub"] ELSE jwt
    IN  [raised |-> "", status_code |-> 0, user_id |-> IF legacy = None THEN "" ELSE legacy[1]]

\* what get_current_user raises ("" when it returns) and the user_id it returns
get_current_user(authz) ==
    LET direct  == IF Truthy(authz["user_id"]) THEN authz["user_id"] ELSE None
        lambda  == IF ~Truthy(direct) THEN authz["lambda.user_id"] ELSE direct
        jwt     == IF ~Truthy(lambda) THEN authz["jwt.claims.sub"] ELSE lambda
        legacy  == IF ~Truthy(jwt) THEN authz["claims.sub"] ELSE jwt
    IN  IF ~Truthy(legacy) THEN [raised |-> "HTTPException", status_code |-> 401, user_id |-> ""]
        ELSE [raised |-> "", status_code |-> 0, user_id |-> legacy[1]]

\* the outcome of a service call: the table after it, what it raised ("" when it
\* returned, else "HTTPException" with its status_code) and the value returned
Result(tbl, raised, status_code, ret) ==
    [tbl |-> tbl, raised |-> raised, status_code |-> status_code, ret |-> ret]

\* the Item model built from a stored item; item is display_item, or the key
\* when display_item is missing or empty
_to_item_model(db_obj) ==
    LET display == Attr(db_obj, "display_item")
    IN  [item |-> IF display = None \/ display = Some(<<>>)
                  THEN Attr(db_obj, "item") ELSE display,
         status |-> Attr(db_obj, "status"),
         createdDate |-> Attr(db_obj, "createdDate"),
         resolutionDate |-> Attr(db_obj, "resolutionDate")]

\* the outcomes of svc_get_random_item, one for each choice random.choice can make
svc_get_random_item(tbl, user_id, fault) ==
    {IF o.raised # "" THEN Result(o.tbl, "Exception", 0, None)
     ELSE IF o.ret = None THEN Result(o.tbl, "HTTPException", 404, None)
     ELSE Result(o.tbl, "", 0, Some(_to_item_model(o.ret[1])))
        : o \in get_random_unresolved(tbl, user_id, fault)}

\* the outcomes of svc_list_items, one for each outcome of list_items
svc_list_items(tbl, user_id, fault) ==
    {IF o.raised # "" THEN Result(o.tbl, "Exception", 0, <<>>)
     ELSE Result(o.tbl, "", 0, [i \in 1..Len(o.ret) |-> _to_item_model(o.ret[i])])
        : o \in list_items(tbl, user_id, fault)}

svc_get_item(tbl, user_id, item, fault) ==
    LET o == get_item(tbl, user_id, item, fault)
    IN  IF o.raised # "" THEN Result(o.tbl, "Exception", 0, None)
        ELSE IF o.ret = None THEN Result(o.tbl, "HTTPException", 404, None)
        ELSE Result(o.tbl, "", 0, Some(_to_item_model(o.ret[1])))

svc_delete_item(tbl, user_id, item, fault) ==
    LET o == delete_item(tbl, user_id, item, fault)
    IN  IF ~o.ret THEN Result(o.tbl, "HTTPException", 404, None)
        ELSE Result(o.tbl, "", 0, None)

svc_resolve_item(tbl, user_id, item, now, fault) ==
    LET o == mark_resolved(tbl, user_id, item, None, now, fault)
    IN  IF o.ret = None THEN Result(o.tbl, "HTTPException", 404, None)
        ELSE Result(o.tbl, "", 0, Some(_to_item_model(o.ret[1])))

\* (mutant) no check of the item text
mut_svc_create_item_no_validation(tbl, user_id, item_text, now, fault) ==
    LET o == put_item_if_absent(tbl, user_id, item_text, None, now, fault)
    IN  IF o.raised = "" THEN Result(o.tbl, "", 0, Some(_to_item_model(o.ret[1])))
        ELSE IF o.raised = ConditionalCheckFailed
             THEN Result(o.tbl, "HTTPException", 409, None)
        ELSE Result(o.tbl, "HTTPException", 500, None)

\* a failing store raises a ClientError whose code is not
\* ConditionalCheckFailedException
svc_create_item(tbl, user_id, item_text, now, fault) ==
    IF item_text = <<>> \/ strip(item_text) = <<>>
    THEN Result(tbl, "HTTPException", 400, None)
    ELSE LET o == put_item_if_absent(tbl, user_id, item_text, None, now, fault)
         IN  IF o.raised = "" THEN Result(o.tbl, "", 0, Some(_to_item_model(o.ret[1])))
             ELSE IF o.raised = ConditionalCheckFailed
                  THEN Result(o.tbl, "HTTPException", 409, None)
             ELSE Result(o.tbl, "HTTPException", 500, None)

---------------------------------------------------------------------------
(* src/lambda/api_app.py and src/lambda/app.py: the endpoints.  A request is    *)
(* received into a slot (pc "pending"), its endpoint runs (pc "done", with the  *)
(* response) and the response is sent (pc "idle").                              *)

Idle == [pc |-> "idle"]

ItemOps == {"addItem", "getItem", "resolveItem", "deleteItem"}
ListOps == {"listItems", "getRandomItem"}

\* the status code of the response: the endpoint's status_code when the service
\* returned, the HTTPException's status_code when it raised one
\* (api_http_exception_handler), 500 for any other exception
\* (api_global_exception_handler)
StatusCode(r, success_code) ==
    IF r.raised = "" THEN success_code
    ELSE IF r.raised = "HTTPException" THEN r.status_code
    ELSE 500

\* the slot after its endpoint ran with service result r; sent is what the
\* request body carried besides the item text, None for a request without a body
Done(p, r, fault, success_code, body, items) ==
    [pc |-> "done", op |-> req[p].op, user_id |-> req[p].user_id, item |-> req[p].item,
     sent |-> IF "sent" \in DOMAIN req[p] THEN Some(req[p].sent) ELSE None,
     fault |-> fault, code |-> StatusCode(r, success_code), body |-> body, items |-> items]

Pending(p, op) == req[p].pc = "pending" /\ req[p].op = op

\* a request of an identified user arrives
Receive(p, op, user_id, item) ==
    /\ req[p] = Idle
    /\ req' = [req EXCEPT ![p] = [pc |-> "pending", op |-> op, user_id |-> user_id, item |-> item]]
    /\ UNCHANGED <<item_table, clock>>
    /\ UNCHANGED <<authVars, logVars>>

\* the Item models a client can send as the body of POST /item with a text:
\* status defaults to NEW, the dates to None; a body of the model carries both
\* dates or none
Bodies(item) ==
    {body \in [item : {item}, status : {"NEW", "RESOLVED"},
               createdDate : {None, Some(MaxClock)}, resolutionDate : {None, Some(MaxClock)}] :
        (body.createdDate = None) = (body.resolutionDate = None)}

\* a POST /item of an identified user arrives: the endpoint takes the text from
\* the body's item and nothing else from it
ReceiveSave(p, user_id, body) ==
    /\ req[p] = Idle
    /\ req' = [req EXCEPT ![p] =
                 [pc |-> "pending", op |-> "addItem", user_id |-> user_id, item |-> body.item,
                  sent |-> [status |-> body.status, createdDate |-> body.createdDate,
                            resolutionDate |-> body.resolutionDate]]]
    /\ UNCHANGED <<item_table, clock>>
    /\ UNCHANGED <<authVars, logVars>>

\* the authorizer contexts a request can arrive with
AuthorizerContexts ==
    [{Places[i] : i \in 1..Len(Places)} -> {None, Some("")} \cup {Some(u) : u \in Users}]

\* a request arrives from API Gateway with its authorizer context
ReceiveEvent(p, op, authz, item) ==
    /\ req[p] = Idle
    /\ req' = [req EXCEPT ![p] = [pc |-> "arrived", op |-> op, authorizer |-> authz, item |-> item]]
    /\ UNCHANGED <<item_table, clock>>
    /\ UNCHANGED <<authVars, logVars>>

\* Depends(get_current_user): the dependency of every endpoint runs before the
\* endpoint; when it raises, the exception handler answers and the endpoint does
\* not run
Identify(p) ==
    /\ req[p].pc = "arrived"
    /\ LET current_user == get_current_user(req[p].authorizer)
       IN  req' = [req EXCEPT ![p] =
                IF current_user.raised # ""
                THEN [pc |-> "done", op |-> req[p].op, user_id |-> "", item |-> req[p].item,
                      authorizer |-> req[p].authorizer, sent |-> None, fault |-> FALSE,
                      code |-> current_user.status_code, body |-> None, items |-> <<>>]
                ELSE [pc |-> "pending", op |-> req[p].op, user_id |-> current_user.user_id,
                      item |-> req[p].item]]
    /\ UNCHANGED <<item_table, clock>>
    /\ UNCHANGED <<authVars, logVars>>

api_get_random_item(p) ==
    /\ Pending(p, "getRandomItem")
    /\ \E fault \in BOOLEAN :
         \E r \in svc_get_random_item(item_table, req[p].user_id, fault) :
            /\ item_table' = r.tbl
            /\ req' = [req EXCEPT ![p] = Done(p, r, fault, 200, r.ret, <<>>)]
    /\ UNCHANGED clock
    /\ UNCHANGED <<authVars, logVars>>

api_get_items(p) ==
    /\ Pending(p, "listItems")
    /\ \E fault \in BOOLEAN :
         \E r \in svc_list_items(item_table, req[p].user_id, fault) :
            /\ item_table' = r.tbl
            /\ req' = [req EXCEPT ![p] = Done(p, r, fault, 200, None, r.ret)]
    /\ UNCHANGED clock
    /\ UNCHANGED <<authVars, logVars>>

api_get_item(p) ==
    /\ Pending(p, "getItem")
    /\ \E fault \in BOOLEAN :
         LET r == svc_get_item(item_table, req[p].user_id, req[p].item, fault)
         IN  /\ item_table' = r.tbl
             /\ req' = [req EXCEPT ![p] = Done(p, r, fault, 200, r.ret, <<>>)]
    /\ UNCHANGED clock
    /\ UNCHANGED <<authVars, logVars>>

api_delete_item(p) ==
    /\ Pending(p, "deleteItem")
    /\ \E fault \in BOOLEAN :
         LET r == svc_delete_item(item_table, req[p].user_id, req[p].item, fault)
         IN  /\ item_table' = r.tbl
             /\ req' = [req EXCEPT ![p] = Done(p, r, fault, 204, r.ret, <<>>)]
    /\ UNCHANGED clock
    /\ UNCHANGED <<authVars, logVars>>

api_resolve_item(p) ==
    /\ Pending(p, "resolveItem")
    /\ \E fault \in BOOLEAN :
         LET r == svc_resolve_item(item_table, req[p].user_id, req[p].item, now_iso, fault)
         IN  /\ item_table' = r.tbl
             /\ req' = [req EXCEPT ![p] = Done(p, r, fault, 200, r.ret, <<>>)]
    /\ UNCHANGED clock
    /\ UNCHANGED <<authVars, logVars>>

api_save_item(p) ==
    /\ Pending(p, "addItem")
    /\ \E fault \in BOOLEAN :
         LET r == svc_create_item(item_table, req[p].user_id, req[p].item, now_iso, fault)
         IN  /\ item_table' = r.tbl
             /\ req' = [req EXCEPT ![p] = Done(p, r, fault, 201, r.ret, <<>>)]
    /\ UNCHANGED clock
    /\ UNCHANGED <<authVars, logVars>>

\* the response is sent and the slot is free again
Return(p) ==
    /\ req[p].pc = "done"
    /\ req' = [req EXCEPT ![p] = Idle]
    /\ UNCHANGED <<item_table, clock>>
    /\ UNCHANGED <<authVars, logVars>>

\* time passes
Tick ==
    /\ clock < MaxClock
    /\ clock' = clock + 1
    /\ UNCHANGED <<item_table, req>>
    /\ UNCHANGED <<authVars, logVars>>

EmptyTable == [k \in {} |-> None]

\* the middleware of a slot handles no request
NotHandling == [pc |-> "none"]

\* no authorizer invocation yet
NoAuth == [pc |-> "none"]

Init ==
    /\ item_table = EmptyTable
    /\ clock = 0
    /\ req = [p \in Procs |-> Idle]
    /\ api_keys_table = {}
    /\ environ = [USER_POOL_ID |-> None]
    /\ auth = NoAuth
    /\ _request_id_context = None
    /\ uuids = 0
    /\ middleware = [p \in Procs |-> NotHandling]
    /\ logged = {}

---------------------------------------------------------------------------
(* The main specification: one user, one request at a time, every endpoint *)

MainUser == "u1"

ReceiveItemOp ==
    \E op \in ItemOps, item \in ItemTexts : Receive(1, op, MainUser, item)

ReceiveListOp ==
    \E op \in ListOps : Receive(1, op, MainUser, <<>>)

ReceiveSaveBody ==
    \E item \in ItemTexts : \E body \in Bodies(item) : ReceiveSave(1, MainUser, body)

Next ==
    \/ ReceiveItemOp
    \/ ReceiveListOp
    \/ ReceiveSaveBody
    \/ api_get_random_item(1)
    \/ api_get_items(1)
    \/ api_get_item(1)
    \/ api_delete_item(1)
    \/ api_resolve_item(1)
    \/ api_save_item(1)
    \/ Return(1)
    \/ Tick

Spec == Init /\ [][Next]_vars

---------------------------------------------------------------------------
(* The two-user specification: two users, the texts of one normalized key, *)
(* one request at a time, every endpoint                                   *)

SharedTexts == {<<"a">>, <<"A">>}

UsersReceiveItemOp ==
    \E op \in ItemOps, user_id \in Users, item \in SharedTexts : Receive(1, op, user_id, item)

UsersReceiveListOp ==
    \E op \in ListOps, user_id \in Users : Receive(1, op, user_id, <<>>)

NextUsers ==
    \/ UsersReceiveItemOp
    \/ UsersReceiveListOp
    \/ api_get_random_item(1)
    \/ api_get_items(1)
    \/ api_get_item(1)
    \/ api_delete_item(1)
    \/ api_resolve_item(1)
    \/ api_save_item(1)
    \/ Return(1)
    \/ Tick

SpecUsers == Init /\ [][NextUsers]_vars

---------------------------------------------------------------------------
(* The identity scenario: requests with any authorizer context, one at a time, *)
(* for a create, a get, a resolve or a list                                    *)

IdentityReceiveEvent ==
    \E op \in {"addItem", "getItem", "resolveItem", "listItems"}, authz \in AuthorizerContexts :
        ReceiveEvent(1, op, authz, <<"a">>)

NextIdentity ==
    \/ IdentityReceiveEvent
    \/ Identify(1)
    \/ api_save_item(1)
    \/ api_get_item(1)
    \/ api_resolve_item(1)
    \/ api_get_items(1)
    \/ Return(1)

SpecIdentity == Init /\ [][NextIdentity]_vars

---------------------------------------------------------------------------
(* The text scenario: one create of any text up to MaxLen, then gets of any *)
(* text up to MaxLen                                                        *)

TextReceiveCreate ==
    /\ item_table = EmptyTable
    /\ \E item \in LongTexts : Receive(1, "addItem", MainUser, item)

TextReceiveGet ==
    /\ item_table # EmptyTable
    /\ \E item \in LongTexts : Receive(1, "getItem", MainUser, item)

NextText ==
    \/ TextReceiveCreate
    \/ TextReceiveGet
    \/ api_save_item(1)
    \/ api_get_item(1)
    \/ Return(1)

SpecText == Init /\ [][NextText]_vars

---------------------------------------------------------------------------
(* The create race: every slot takes one create request of the same user, and *)
(* the requests run in any order                                              *)

RaceReceiveCreate(p) ==
    \E item \in ItemTexts : Receive(p, "addItem", MainUser, item)

NextRace ==
    \/ \E p \in Procs : RaceReceiveCreate(p)
    \/ \E p \in Procs : api_save_item(p)
    \/ Tick

SpecRace == Init /\ [][NextRace]_vars

---------------------------------------------------------------------------
(* The key race: the table holds the record a create of "A" at time 0 stored, *)
(* every slot takes one create, resolve or delete request of the same user    *)
(* for a text of that key, and the requests run in any order                  *)

\* the table after the create of "A" at time 0
SeededTable == put_item_if_absent(EmptyTable, MainUser, <<"A">>, None, 0, FALSE).tbl

InitKeyRace ==
    /\ item_table = SeededTable
    /\ clock = 0
    /\ req = [p \in Procs |-> Idle]
    /\ api_keys_table = {}
    /\ environ = [USER_POOL_ID |-> None]
    /\ auth = NoAuth
    /\ _request_id_context = None
    /\ uuids = 0
    /\ middleware = [p \in Procs |-> NotHandling]
    /\ logged = {}

KeyRaceOps == {"addItem", "resolveItem", "deleteItem"}

KeyRaceReceive(p) ==
    \E op \in KeyRaceOps, item \in SharedTexts : Receive(p, op, MainUser, item)

NextKeyRace ==
    \/ \E p \in Procs : KeyRaceReceive(p)
    \/ \E p \in Procs : api_save_item(p)
    \/ \E p \in Procs : api_resolve_item(p)
    \/ \E p \in Procs : api_delete_item(p)
    \/ Tick

SpecKeyRace == InitKeyRace /\ [][NextKeyRace]_vars

---------------------------------------------------------------------------
(* src/lambda/utils/logging.py and the middleware of src/lambda/app.py.       *)
(*                                                                            *)
(* _request_id_context is the dict of the logging module, one for the         *)
(* process: its request_id entry, None when it has none.  A request id is the *)
(* number of the uuid4 drawn for it.  A coroutine runs until it awaits, so    *)
(* the middleware of a request takes three steps: up to await call_next, the  *)
(* endpoint inside call_next, and from the return of call_next on.            *)

\* _request_id_context["request_id"] = request_id: the dict after set_request_id
set_request_id(request_id) == Some(request_id)

\* _request_id_context.get("request_id")
get_request_id == _request_id_context

\* _request_id_context.pop("request_id", None): the dict after clear_request_id
clear_request_id == None

\* the line _log emits while the dict is context, for the request it is called
\* in: extra carries the request_id of the dict, none when the dict has none
_log(request, message, context) ==
    [request |-> request, message |-> message, request_id |-> context]

\* log_requests_api up to await call_next: set_request_id() draws a uuid4 and
\* info() logs the incoming request
log_requests_api(p) ==
    /\ middleware[p] = NotHandling
    /\ uuids < MaxRequests
    /\ LET request_id == uuids + 1
       IN  /\ uuids' = request_id
           /\ _request_id_context' = set_request_id(request_id)
           /\ logged' = logged \cup
                 {_log(request_id, "Incoming request", set_request_id(request_id))}
           /\ middleware' = [middleware EXCEPT ![p] = [pc |-> "call_next", request |-> request_id]]
    /\ UNCHANGED <<itemVars, authVars>>

\* inside call_next: the endpoint runs and its service function logs a line
\* (svc_list_items: debug, then a query that changes nothing)
call_next(p) ==
    /\ middleware[p].pc = "call_next"
    /\ logged' = logged \cup {_log(middleware[p].request, "Listing items", get_request_id)}
    /\ middleware' = [middleware EXCEPT ![p].pc = "response"]
    /\ UNCHANGED <<_request_id_context, uuids>>
    /\ UNCHANGED <<itemVars, authVars>>

\* log_requests_api from the return of call_next on: info() logs the completed
\* request and the finally clause runs clear_request_id()
log_requests_api_completed(p) ==
    /\ middleware[p].pc = "response"
    /\ logged' = logged \cup {_log(middleware[p].request, "Completed request", get_request_id)}
    /\ _request_id_context' = clear_request_id
    /\ middleware' = [middleware EXCEPT ![p] = NotHandling]
    /\ UNCHANGED uuids
    /\ UNCHANGED <<itemVars, authVars>>

NextLog ==
    \/ \E p \in Procs : log_requests_api(p)
    \/ \E p \in Procs : call_next(p)
    \/ \E p \in Procs : log_requests_api_completed(p)

SpecLog == Init /\ [][NextLog]_vars

---------------------------------------------------------------------------
(* src/lambda_authorizer/main.py: the Identity Resolver.                      *)
(*                                                                            *)
(* A header value is the sequence of its whitespace-separated words (joined   *)
(* by single spaces), a word is the sequence of its dot-separated segments,   *)
(* and a segment is a string.  b64json gives, for each segment of the model,  *)
(* what json.loads(base64.urlsafe_b64decode(segment)) gives.                  *)

\* str.lower of a scheme word
WordLower(word) ==
    IF word \in {<<"Bearer">>, <<"BEARER">>, <<"bearer">>} THEN <<"bearer">> ELSE word

\* a decoded JSON value: whether it is an object, whether Python takes it as
\* true, and its sub and iss members (None when it has none)
Json(object, truthy, sub, iss) ==
    [raises |-> FALSE, object |-> object, truthy |-> truthy, sub |-> sub, iss |-> iss]

\* an issuer is the sequence of the pieces of its URL after the region host
b64json(segment) ==
    CASE segment = "sub=alice,iss=pool1"   -> Json(TRUE, TRUE, Some("alice"), Some(<<"pool1">>))
      [] segment = "sub=alice,iss=pool1x"  -> Json(TRUE, TRUE, Some("alice"), Some(<<"pool1", "x">>))
      [] segment = "sub=alice,iss=pool2"   -> Json(TRUE, TRUE, Some("alice"), Some(<<"pool2">>))
      [] segment = "iss=pool1"             -> Json(TRUE, TRUE, None, Some(<<"pool1">>))
      [] segment = "sub=,iss=pool1"        -> Json(TRUE, TRUE, Some(""), Some(<<"pool1">>))
      [] segment = "sub=alice"             -> Json(TRUE, TRUE, Some("alice"), None)
      [] segment = "{}"                    -> Json(TRUE, FALSE, None, None)
      [] segment = "0"                     -> Json(FALSE, FALSE, None, None)
      [] segment = "[1]"                   -> Json(FALSE, TRUE, None, None)
      [] OTHER                             -> [raises |-> TRUE]

PayloadSegments ==
    {"sub=alice,iss=pool1", "sub=alice,iss=pool1x", "sub=alice,iss=pool2", "iss=pool1",
     "sub=,iss=pool1", "sub=alice", "{}", "0", "[1]", "garbage"}

\* the credentials a request can carry: API keys and three-segment tokens
Words == {<<"key1">>, <<"key2">>, <<"hdr", "sig">>} \cup {<<"hdr", seg, "sig">> : seg \in PayloadSegments}

Schemes == {<<"Bearer">>, <<"bearer">>, <<"Basic">>}

HeaderValues == {<<>>} \cup {<<w>> : w \in Words} \cup {<<sch, w>> : sch \in Schemes, w \in Words}

HeaderNames == {"Authorization", "authorization", "X-Api-Key"}

\* str.lower of a header name
NameLower(name) == IF name = "Authorization" THEN "authorization" ELSE name

NoParameters == [n \in {} |-> <<>>]

QueryParameterNames == {"api_key"}

\* an event carries no header or one header, and no query parameter, or it
\* carries no header and an API key as a query parameter
Events ==
    {[headers |-> [n \in {} |-> <<>>], queryStringParameters |-> NoParameters]}
    \cup {[headers |-> [n \in {name} |-> value], queryStringParameters |-> NoParameters]
             : name \in HeaderNames, value \in HeaderValues}
    \cup {[headers |-> [n \in {} |-> <<>>],
           queryStringParameters |-> [n \in {name} |-> <<w>>]]
             : name \in QueryParameterNames, w \in {<<"key1">>, <<"key2">>}}

\* the credential mappings that can be provisioned
Mappings ==
    {[api_key |-> <<<<"key1">>>>, user_id |-> "bob"],
     [api_key |-> <<<<"Bearer">>, <<"key2">>>>, user_id |-> "carol"],
     [api_key |-> <<<<"Bearer">>, <<"hdr", "sub=alice,iss=pool2", "sig">>>>, user_id |-> "dave"],
     [api_key |-> <<<<"Bearer">>, <<"hdr", "sub=alice,iss=pool1", "sig">>>>, user_id |-> "erin"]}

Environs == {[USER_POOL_ID |-> None], [USER_POOL_ID |-> Some("pool1")]}

\* the bearer token of the header, None when it has none
_parse_bearer_token(auth_header) ==
    IF auth_header = <<>> THEN None
    ELSE IF Len(auth_header) = 2 /\ WordLower(auth_header[1]) = <<"bearer">>
         THEN Some(auth_header[2])
    ELSE None

\* the payload of the token, decoded without verification; raises TRUE stands
\* for the None the function returns
_decode_jwt_no_verify(token) ==
    IF Len(token) < 2 THEN [raises |-> TRUE] ELSE b64json(token[2])

_allow(principal_id, user_id) ==
    [effect |-> "Allow", principalId |-> principal_id, user_id |-> Some(user_id)]

_deny == [effect |-> "Deny", principalId |-> "anonymous", user_id |-> None]

\* the handler ended with an exception: the authorizer returns no policy
Raised == [effect |-> "Error", principalId |-> "", user_id |-> None]

\* str.startswith
StartsWith(x, prefix) == Len(prefix) <= Len(x) /\ SubSeq(x, 1, Len(prefix)) = prefix

\* (mutant) no issuer check
mut_issuer_accepted_always(payload, env) == TRUE

\* the issuer check: none when USER_POOL_ID is not set, else the issuer starts
\* with the pool's issuer URL
issuer_accepted(payload, env) ==
    LET user_pool_id == env.USER_POOL_ID
        expected_iss_prefix == IF user_pool_id # None THEN Some(<<user_pool_id[1]>>) ELSE None
    IN  \/ expected_iss_prefix = None
        \/ StartsWith(IF payload.iss = None THEN <<>> ELSE payload.iss[1], expected_iss_prefix[1])

\* step 1, the token path: "allow" with the sub, "raise" when the payload is a
\* true value that is no object (payload.get raises AttributeError), else "next"
jwt_path(auth_header, env) ==
    LET token == IF auth_header # <<>> THEN _parse_bearer_token(auth_header) ELSE None
    IN  IF token = None THEN [go |-> "next"]
        ELSE LET payload == _decode_jwt_no_verify(token[1])
             IN  IF payload.raises \/ ~payload.truthy THEN [go |-> "next"]
                 ELSE IF ~payload.object THEN [go |-> "raise"]
                 ELSE IF payload.sub \in {None, Some("")} \/ payload.iss \in {None, Some(<<>>)}
                      THEN [go |-> "next"]
                 ELSE IF issuer_accepted(payload, env)
                      THEN [go |-> "allow", user_id |-> payload.sub[1]]
                 ELSE [go |-> "next"]

\* the mappings one call of table.scan can read before it applies the filter:
\* the whole table when it fits a page, else any ScanPageItems of its mappings
\* (the response then carries a LastEvaluatedKey, which the handler does not
\* follow)
scan(keys) ==
    IF Cardinality(keys) <= ScanPageItems THEN {keys}
    ELSE {page \in SUBSET keys : Cardinality(page) = ScanPageItems}

\* (mutant) a scan that raises is answered with a default user_id
mut_api_key_path_fail_open(auth_header, keys, fault) ==
    IF auth_header = <<>> THEN {None}
    ELSE IF fault THEN {Some("unknown")}
    ELSE UNION {LET items == {m \in page : m.api_key = auth_header}
                IN  IF items = {} THEN {None} ELSE {Some(m.user_id) : m \in items}
                  : page \in scan(keys)}

\* step 2, the API key path: the user_id values items[0] of the scan can have,
\* None when the scan raises or matches nothing
api_key_path(auth_header, keys, fault) ==
    IF auth_header = <<>> \/ fault THEN {None}
    ELSE UNION {LET items == {m \in page : m.api_key = auth_header}
                IN  IF items = {} THEN {None} ELSE {Some(m.user_id) : m \in items}
                  : page \in scan(keys)}

\* (mutant) the API key path is tried before the token path
mut_handler_api_key_first(event, env, keys, fault) ==
    LET headers == [n \in {NameLower(k) : k \in DOMAIN event.headers} |->
                       event.headers[CHOOSE k \in DOMAIN event.headers : NameLower(k) = n]]
        auth_header == IF "authorization" \in DOMAIN headers
                       THEN headers["authorization"] ELSE <<>>
        jwt == jwt_path(auth_header, env)
    IN  {IF user_id # None THEN _allow("apiKeyUser", user_id[1])
         ELSE IF jwt.go = "allow" THEN _allow("cognitoUser", jwt.user_id)
         ELSE IF jwt.go = "raise" THEN Raised
         ELSE _deny
            : user_id \in api_key_path(auth_header, keys, fault)}

\* the results handler(event, context) can return
handler(event, env, keys, fault) ==
    LET headers == [n \in {NameLower(k) : k \in DOMAIN event.headers} |->
                       event.headers[CHOOSE k \in DOMAIN event.headers : NameLower(k) = n]]
        auth_header == IF "authorization" \in DOMAIN headers
                       THEN headers["authorization"] ELSE <<>>
        jwt == jwt_path(auth_header, env)
    IN  IF jwt.go = "allow" THEN {_allow("cognitoUser", jwt.user_id)}
        ELSE IF jwt.go = "raise" THEN {Raised}
        ELSE {IF user_id # None THEN _allow("apiKeyUser", user_id[1]) ELSE _deny
                : user_id \in api_key_path(auth_header, keys, fault)}

\* API Gateway invokes the authorizer for a request
AuthReceive ==
    /\ auth = NoAuth
    /\ \E event \in Events : auth' = [pc |-> "pending", event |-> event]
    /\ UNCHANGED <<api_keys_table, environ>>
    /\ UNCHANGED <<itemVars, logVars>>

\* the handler runs
Authorize ==
    /\ auth.pc = "pending"
    /\ \E fault \in BOOLEAN :
         \E result \in handler(auth.event, environ, api_keys_table, fault) :
            auth' = [pc |-> "done", event |-> auth.event, fault |-> fault, result |-> result]
    /\ UNCHANGED <<api_keys_table, environ>>
    /\ UNCHANGED <<itemVars, logVars>>

\* the policy is returned to API Gateway
AuthReturn ==
    /\ auth.pc = "done"
    /\ auth' = NoAuth
    /\ UNCHANGED <<api_keys_table, environ>>
    /\ UNCHANGED <<itemVars, logVars>>

\* a credential mapping is created out of band
ProvisionKey ==
    /\ \E m \in Mappings \ api_keys_table : api_keys_table' = api_keys_table \cup {m}
    /\ UNCHANGED <<environ, auth>>
    /\ UNCHANGED <<itemVars, logVars>>

\* a credential mapping is removed out of band
RevokeKey ==
    /\ \E m \in api_keys_table : api_keys_table' = api_keys_table \ {m}
    /\ UNCHANGED <<environ, auth>>
    /\ UNCHANGED <<itemVars, logVars>>

InitAuth ==
    /\ item_table = EmptyTable
    /\ clock = 0
    /\ req = [p \in Procs |-> Idle]
    /\ api_keys_table = {}
    /\ environ \in Environs
    /\ auth = NoAuth
    /\ _request_id_context = None
    /\ uuids = 0
    /\ middleware = [p \in Procs |-> NotHandling]
    /\ logged = {}

NextAuth ==
    \/ AuthReceive
    \/ Authorize
    \/ AuthReturn
    \/ ProvisionKey
    \/ RevokeKey

SpecAuth == InitAuth /\ [][NextAuth]_vars

---------------------------------------------------------------------------
(* The vocabulary of the claims *)

\* the normalized key as the specification defines it: trim, then lowercase
TrimLower(text) == lower(strip(text))

\* the records the table stores
Records(tbl) == {tbl[k] : k \in DOMAIN tbl}

\* the records stored for a user under a normalized key
Stored(tbl, user_id, key) ==
    {r \in Records(tbl) : r.user_id = user_id /\ TrimLower(r.display_item) = key}

\* slot p's endpoint runs in this step
Runs(p, op) == Pending(p, op) /\ req'[p].pc = "done"

\* slot p holds the response of an endpoint
Responded(p, op) == req[p].pc = "done" /\ req[p].op = op

---------------------------------------------------------------------------
(* C1 *)

\* C1: when a create runs for a user and a text whose normalized key (trim, then
\* lowercase) equals that of a record the user already has, the table is exactly
\* what it was before, and the response is 409 Conflict (the backing store
\* answering the call).
C1_CreateExistingConflicts ==
    [][\A p \in Procs :
        (/\ Runs(p, "addItem")
         /\ Stored(item_table, req[p].user_id, TrimLower(req[p].item)) # {})
        => /\ item_table' = item_table
           /\ ~req'[p].fault => req'[p].code = 409]_vars

\* a create of "A" (or "a") was answered 409 while the record of the other case is
\* stored
C1_Witness ==
    /\ Responded(1, "addItem")
    /\ req[1].code = 409
    /\ \E r \in Stored(item_table, req[1].user_id, TrimLower(req[1].item)) :
          r.display_item # req[1].item

---------------------------------------------------------------------------
(* C2 *)

\* the records stored for users other than user_id
OthersRecords(tbl, user_id) == {r \in Records(tbl) : r.user_id # user_id}

\* the Item models of the records stored for user_id
OwnModels(tbl, user_id) ==
    {_to_item_model(r) : r \in {x \in Records(tbl) : x.user_id = user_id}}

\* C2: whatever endpoint runs for a user, the records of every other user are
\* after the step exactly what they were before, every record the response
\* carries is one stored for the requesting user, and a create for a key that
\* only another user holds is answered 201 (the backing store answering the call).
C2_CrossUserIsolation ==
    [][\A p \in Procs : \A op \in ItemOps \cup ListOps : Runs(p, op) =>
        LET user_id == req[p].user_id
        IN  /\ OthersRecords(item_table', user_id) = OthersRecords(item_table, user_id)
            /\ req'[p].body # None =>
                  req'[p].body[1] \in OwnModels(item_table, user_id) \cup OwnModels(item_table', user_id)
            /\ \A i \in 1..Len(req'[p].items) :
                  req'[p].items[i] \in OwnModels(item_table, user_id)
            /\ (/\ op = "addItem"
                 /\ ~req'[p].fault
                 /\ Stored(item_table, user_id, TrimLower(req[p].item)) = {})
                => req'[p].code = 201]_vars

\* a create of user u2 was answered 201 for a key of which u1 holds a record, and
\* both records are stored
C2_Witness ==
    /\ Responded(1, "addItem")
    /\ req[1].user_id = "u2"
    /\ req[1].code = 201
    /\ Stored(item_table, "u1", TrimLower(req[1].item)) # {}
    /\ Stored(item_table, "u2", TrimLower(req[1].item)) # {}

---------------------------------------------------------------------------
(* C3 *)

\* two texts are equal up to the case of their characters
SameIgnoringCase(x, y) ==
    /\ Len(x) = Len(y)
    /\ \A i \in 1..Len(x) : UpperChar(x[i]) = UpperChar(y[i])

\* v is a case variant, a leading or trailing whitespace variant, or both, of t
Variant(t, v) == SameIgnoringCase(strip(t), strip(v))

\* C3: a create of a text T whose trimmed form is not empty, when answered 201,
\* answers with the record it stored, whose item is T as submitted; and a get of any case and whitespace
\* variant of the display text T of a stored record answers (the backing store
\* answering the call) 200 with that record, its item being T.
C3_CreateThenGetAnyVariant ==
    \A p \in Procs :
        /\ (Responded(p, "addItem") /\ req[p].code = 201) =>
              /\ strip(req[p].item) # <<>>
              /\ req[p].body[1].item = Some(req[p].item)
              /\ \E r \in Records(item_table) :
                    /\ r.user_id = req[p].user_id /\ r.display_item = req[p].item
                    /\ req[p].body = Some(_to_item_model(r))
        /\ (Responded(p, "getItem") /\ ~req[p].fault) =>
              \A r \in Records(item_table) :
                 (r.user_id = req[p].user_id /\ Variant(r.display_item, req[p].item))
                 => /\ req[p].code = 200
                    /\ req[p].body = Some(_to_item_model(r))
                    /\ req[p].body[1].item = Some(r.display_item)

\* " A" was created and a get of "a " was answered with the record, item " A"
C3_Witness ==
    /\ Responded(1, "getItem")
    /\ req[1].code = 200
    /\ req[1].item = <<"a", " ">>
    /\ req[1].body[1].item = Some(<<" ", "A">>)

---------------------------------------------------------------------------
(* C4 *)

\* the slots that hold the response of a create for a user and a normalized key
DoneCreates(user_id, key) ==
    {p \in Procs : /\ Responded(p, "addItem")
                    /\ req[p].user_id = user_id
                    /\ TrimLower(req[p].item) = key}

\* C4: of the creates that ran, in any order, for one user and one normalized
\* key that was absent, at most one was answered 201; exactly one was, as soon as
\* the backing store answered one of them; every other one was answered 409
\* (or 500, the store failing its call); and the stored record is the record
\* the 201 response carries, with the display text of that request.
C4_ConcurrentCreatesOneWinner ==
    \A key \in {TrimLower(t) : t \in ItemTexts} \ {<<>>} :
        LET done    == DoneCreates(MainUser, key)
            winners == {p \in done : req[p].code = 201}
        IN  /\ Cardinality(winners) <= 1
            /\ (\E p \in done : ~req[p].fault) => Cardinality(winners) = 1
            /\ \A p \in done \ winners :
                  req[p].code = IF req[p].fault THEN 500 ELSE 409
            /\ \A p \in winners :
                  \E r \in Stored(item_table, MainUser, key) :
                     /\ r.display_item = req[p].item
                     /\ req[p].body = Some(_to_item_model(r))

\* two creates of the same key with different texts have run: one was answered
\* 201 and the other 409
C4_Witness ==
    \E p, q \in Procs :
        /\ Responded(p, "addItem") /\ req[p].code = 201
        /\ Responded(q, "addItem") /\ req[q].code = 409
        /\ req[p].item # req[q].item
        /\ TrimLower(req[p].item) = TrimLower(req[q].item)

---------------------------------------------------------------------------
(* C5 *)

\* C5: a resolve for a (user, key) without a record answers 404 and leaves the
\* table as it was; a resolve of a NEW record answers (the backing store answering
\* the call) 200 with the stored record, now RESOLVED with a resolutionDate; a
\* resolve of a RESOLVED record answers 200 and the record stays RESOLVED.
C5_Resolve ==
    [][\A p \in Procs : Runs(p, "resolveItem") =>
        LET before == Stored(item_table, req[p].user_id, TrimLower(req[p].item))
            after  == Stored(item_table', req[p].user_id, TrimLower(req[p].item))
        IN  /\ before = {} => req'[p].code = 404 /\ item_table' = item_table
            /\ (before # {} /\ ~req'[p].fault) =>
                 /\ req'[p].code = 200
                 /\ \A r \in after : r.status = "RESOLVED" /\ "resolutionDate" \in DOMAIN r
                 /\ \E r \in after : req'[p].body = Some(_to_item_model(r))
                 /\ req'[p].body[1].status = Some("RESOLVED")
                 /\ req'[p].body[1].resolutionDate # None]_vars

\* a resolve has been answered 200 with the record, RESOLVED at a time after its
\* creation, and the record is stored so
C5_Witness ==
    /\ Responded(1, "resolveItem")
    /\ req[1].code = 200
    /\ req[1].body[1].status = Some("RESOLVED")
    /\ req[1].body[1].resolutionDate # req[1].body[1].createdDate
    /\ \E r \in Records(item_table) : req[1].body = Some(_to_item_model(r))

---------------------------------------------------------------------------
(* C6 *)

\* C6: a delete of an existing record (the backing store answering the call)
\* answers 204 and removes it and nothing else, so that a get and a second delete
\* of the same user and key then answer 404; a delete or a get for a (user, key)
\* without a record answers 404 (a get: the store answering), and the delete
\* leaves the table as it was.
C6_Delete ==
    [][\A p \in Procs :
        LET user_id == req[p].user_id
            key     == TrimLower(req[p].item)
        IN  /\ Runs(p, "deleteItem") =>
                 /\ Stored(item_table, user_id, key) = {} =>
                        req'[p].code = 404 /\ item_table' = item_table
                 /\ (Stored(item_table, user_id, key) # {} /\ ~req'[p].fault) =>
                        /\ req'[p].code = 204
                        /\ Records(item_table') =
                              Records(item_table) \ Stored(item_table, user_id, key)
                        /\ svc_get_item(item_table', user_id, req[p].item, FALSE).status_code = 404
                        /\ svc_delete_item(item_table', user_id, req[p].item, FALSE).status_code = 404
            /\ (Runs(p, "getItem") /\ Stored(item_table, user_id, key) = {} /\ ~req'[p].fault)
                 => req'[p].code = 404]_vars

\* a delete was answered 204 while another record of the user stays stored
C6_Witness ==
    /\ Responded(1, "deleteItem")
    /\ req[1].code = 204
    /\ Stored(item_table, req[1].user_id, TrimLower(req[1].item)) = {}
    /\ item_table # EmptyTable

---------------------------------------------------------------------------
(* C7 *)

\* C7: every stored record lacks resolutionDate if and only if its status is NEW.
C7_ResolvedAtIffResolved ==
    \A r \in Records(item_table) : ("resolutionDate" \notin DOMAIN r) <=> (r.status = "NEW")

\* the table holds a NEW record and a RESOLVED record
C7_Witness ==
    /\ \E r \in Records(item_table) : r.status = "NEW"
    /\ \E r \in Records(item_table) : r.status = "RESOLVED"

---------------------------------------------------------------------------
(* C8 *)

\* C8: once a stored record has a resolutionDate, no step changes it while the
\* record stays stored.
C8_ResolvedAtSetOnce ==
    [][\A k \in DOMAIN item_table :
        (k \in DOMAIN item_table' /\ "resolutionDate" \in DOMAIN item_table[k])
        => /\ "resolutionDate" \in DOMAIN item_table'[k]
           /\ item_table'[k].resolutionDate = item_table[k].resolutionDate]_vars

---------------------------------------------------------------------------
(* C9 *)

\* C9: a resolve or a delete during which the backing store failed is answered
\* 500 (Internal), never 404 (NotFound).
C9_StoreFailureIsInternal ==
    \A p \in Procs :
        (/\ req[p].pc = "done"
         /\ req[p].op \in {"resolveItem", "deleteItem"}
         /\ req[p].fault)
        => req[p].code = 500 /\ req[p].code # 404

---------------------------------------------------------------------------
(* C10 *)

\* the value of the request's Authorization header, <<>> when it has none
AuthorizationOf(event) ==
    IF \E n \in DOMAIN event.headers : NameLower(n) = "authorization"
    THEN event.headers[CHOOSE n \in DOMAIN event.headers : NameLower(n) = "authorization"]
    ELSE <<>>

\* the header carries a bearer token that is malformed (its payload does not
\* decode, or is no object with a sub and an iss), or whose issuer fails the
\* check against the configured pool
RejectedBearer(event, env) ==
    LET token == _parse_bearer_token(AuthorizationOf(event))
    IN  /\ token # None
        /\ LET payload == _decode_jwt_no_verify(token[1])
           IN  \/ payload.raises
               \/ ~payload.object
               \/ payload.sub \in {None, Some("")}
               \/ payload.iss \in {None, Some(<<>>)}
               \/ /\ env.USER_POOL_ID # None
                  /\ ~StartsWith(payload.iss[1], <<env.USER_POOL_ID[1]>>)

\* the payload of the header's bearer token decodes to a true JSON value that is
\* no object (a string, a number, a list)
NonObjectPayload(event) ==
    LET payload == _decode_jwt_no_verify(_parse_bearer_token(AuthorizationOf(event))[1])
    IN  ~payload.raises /\ payload.truthy /\ ~payload.object

---------------------------------------------------------------------------
(* C11 *)

\* the header carries a bearer token the token path accepts: its payload decodes
\* to an object with a sub and an iss, and the issuer passes the check
ValidBearer(event, env) ==
    /\ _parse_bearer_token(AuthorizationOf(event)) # None
    /\ ~RejectedBearer(event, env)

\* the token path ends the invocation: it accepts the token, or it raises
TokenPathDecides(event, env) ==
    /\ _parse_bearer_token(AuthorizationOf(event)) # None
    /\ ValidBearer(event, env) \/ NonObjectPayload(event)

\* the handler runs in this step
Authorizes == auth.pc = "pending" /\ auth'.pc = "done"

\* C11: a request without an Authorization header value is denied; a request
\* whose header value the token path leaves undecided is denied when no credential
\* mapping has it as its api_key, and also when the scan raises, whatever the
\* store holds.  Denied is: the Deny policy for principal anonymous, without a
\* user_id; never an error and never an Allow.
C11_FailsClosed ==
    [][Authorizes =>
        LET header  == AuthorizationOf(auth.event)
            matches == {m \in api_keys_table : m.api_key = header}
        IN  /\ header = <<>> => auth'.result = _deny
            /\ (/\ header # <<>>
                /\ ~TokenPathDecides(auth.event, environ)
                /\ matches = {} \/ auth'.fault)
               => auth'.result = _deny]_vars

\* a request presenting a provisioned API key was denied, the scan having raised
C11_Witness ==
    /\ auth.pc = "done"
    /\ auth.fault
    /\ AuthorizationOf(auth.event) = <<<<"key1">>>>
    /\ \E m \in api_keys_table : m.api_key = AuthorizationOf(auth.event)
    /\ auth.result = _deny

---------------------------------------------------------------------------
(* C12 *)

\* the sub of the header's bearer token
SubOf(event) == _decode_jwt_no_verify(_parse_bearer_token(AuthorizationOf(event))[1]).sub[1]

\* C12: a request whose Authorization header holds a valid bearer token is
\* allowed as principal cognitoUser with user_id = the token's sub, whatever the
\* credential store holds and whether or not a scan of it would raise; and a
\* request is allowed as an API key user only when its header holds no valid
\* bearer token.
C12_TokenPathPriority ==
    [][Authorizes =>
        /\ ValidBearer(auth.event, environ)
              => auth'.result = _allow("cognitoUser", SubOf(auth.event))
        /\ auth'.result.principalId = "apiKeyUser"
              => ~ValidBearer(auth.event, environ)]_vars

\* a valid bearer token was resolved to its sub while the credential store maps
\* the same header value to another user
C12_Witness ==
    /\ auth.pc = "done"
    /\ ValidBearer(auth.event, environ)
    /\ environ.USER_POOL_ID # None
    /\ ~auth.fault
    /\ \E m \in api_keys_table :
          m.api_key = AuthorizationOf(auth.event) /\ Some(m.user_id) # auth.result.user_id
    /\ auth.result.effect = "Allow"
    /\ auth.result.user_id = Some(SubOf(auth.event))

---------------------------------------------------------------------------
(* C13 *)

\* the request presents the API key: as the value of one of its headers, or as
\* the value of one of its query parameters
Presents(event, api_key) ==
    \/ \E n \in DOMAIN event.headers : event.headers[n] = api_key
    \/ \E n \in DOMAIN event.queryStringParameters : event.queryStringParameters[n] = api_key

\* C13: a request that presents, in a header or as a query parameter, an API key
\* for which the credential store holds a mapping, and that carries no valid
\* bearer token, is allowed as the user_id of that mapping, however many mappings
\* the store holds (the scan answering the call).
C13_MappedKeyResolves ==
    [][Authorizes =>
        \A m \in api_keys_table :
            (/\ Presents(auth.event, m.api_key)
             /\ ~ValidBearer(auth.event, environ)
             /\ ~auth'.fault)
            => auth'.result = _allow("apiKeyUser", m.user_id)]_vars

---------------------------------------------------------------------------
(* C16 *)

\* the records stored for a user whose status is not RESOLVED
Open(tbl, user_id) ==
    {r \in Records(tbl) : r.user_id = user_id /\ r.status # "RESOLVED"}

\* what a random pick the store answers can return in a state: nothing when the
\* user has no open record, else any one of them
Picks(tbl, user_id) ==
    IF Open(tbl, user_id) = {} THEN {None}
    ELSE {Some(_to_item_model(r)) : r \in Open(tbl, user_id)}

\* C16: a random pick the backing store answers is answered 404 when the user has
\* no record of a status other than RESOLVED, and else 200 with one of the user's
\* records whose status is not RESOLVED; each of these records is a result the
\* call can have; and the call leaves the table, and so the records later picks
\* choose from, as it was.
C16_RandomPick ==
    [][\A p \in Procs : (Runs(p, "getRandomItem") /\ ~req'[p].fault) =>
        LET user_id == req[p].user_id
        IN  /\ Open(item_table, user_id) = {} => req'[p].code = 404
            /\ Open(item_table, user_id) # {} => req'[p].code = 200
            /\ req'[p].body \in Picks(item_table, user_id)
            /\ {r.ret : r \in svc_get_random_item(item_table, user_id, FALSE)}
                  = Picks(item_table, user_id)
            /\ item_table' = item_table
            /\ Picks(item_table', user_id) = Picks(item_table, user_id)]_vars

\* a random pick was answered with the NEW record of a user who also has a
\* RESOLVED record
C16_Witness ==
    /\ Responded(1, "getRandomItem")
    /\ req[1].code = 200
    /\ req[1].body \in Picks(item_table, req[1].user_id)
    /\ \E r \in Records(item_table) : r.user_id = req[1].user_id /\ r.status = "RESOLVED"

---------------------------------------------------------------------------
(* C17 *)

\* C17: a create whose text is empty, or empty once trimmed, is answered 400 and
\* leaves the table as it was, also when the backing store would fail the call
\* (no call is made); and no step stores a record whose normalized key is empty.
C17_EmptyTextRejected ==
    [][/\ \A p \in Procs : (Runs(p, "addItem") /\ TrimLower(req[p].item) = <<>>) =>
            /\ req'[p].code = 400
            /\ item_table' = item_table
       /\ \A r \in Records(item_table') :
            r.item # <<>> /\ TrimLower(r.display_item) # <<>>]_vars

\* a create of a text of one space was answered 400 although the backing store
\* would have failed the call, while the table holds a record
C17_Witness ==
    /\ Responded(1, "addItem")
    /\ req[1].item = <<" ">>
    /\ req[1].fault
    /\ req[1].code = 400
    /\ item_table # EmptyTable

---------------------------------------------------------------------------
(* C18 *)

\* the keys of the records stored for a user
OwnKeys(tbl, user_id) == {k \in DOMAIN tbl : k[1] = user_id}

\* C18: a list the backing store answers is answered 200 with exactly the records
\* stored for the user, NEW and RESOLVED, each once, in whatever pages the store
\* returns the partition; and it leaves the table as it was.
C18_ListComplete ==
    [][\A p \in Procs : (Runs(p, "listItems") /\ ~req'[p].fault) =>
        LET items == req'[p].items
        IN  /\ req'[p].code = 200
            /\ {items[i] : i \in 1..Len(items)} = OwnModels(item_table, req[p].user_id)
            /\ Len(items) = Cardinality(OwnKeys(item_table, req[p].user_id))
            /\ item_table' = item_table]_vars

\* a list was answered with two records, one NEW and one RESOLVED: more records
\* than the smallest page holds
C18_Witness ==
    /\ Responded(1, "listItems")
    /\ Len(req[1].items) = 2
    /\ 1 \in PageSizes
    /\ \E i, j \in 1..2 :
          /\ req[1].items[i].status = Some("NEW")
          /\ req[1].items[j].status = Some("RESOLVED")

---------------------------------------------------------------------------
(* C19 *)

\* C19: in every step, a record that enters the table has status NEW and no
\* resolutionDate, and a record that stays in the table keeps its status or goes
\* from NEW to RESOLVED, never from RESOLVED to NEW; a create answered 201
\* answers with status NEW, no resolutionDate and the time of the call as
\* createdDate, whatever status and dates the request body carries.
C19_StatusOnlyForward ==
    [][/\ \A k \in DOMAIN item_table' \ DOMAIN item_table :
            /\ item_table'[k].status = "NEW"
            /\ "resolutionDate" \notin DOMAIN item_table'[k]
       /\ \A k \in DOMAIN item_table' \cap DOMAIN item_table :
            \/ item_table'[k].status = item_table[k].status
            \/ item_table[k].status = "NEW" /\ item_table'[k].status = "RESOLVED"
       /\ \A p \in Procs : (Runs(p, "addItem") /\ req'[p].code = 201) =>
            LET key == PrimaryKey(req[p].user_id, TrimLower(req[p].item))
            IN  /\ key \in DOMAIN item_table' \ DOMAIN item_table
                /\ item_table'[key].createdDate = clock
                /\ req'[p].body[1].status = Some("NEW")
                /\ req'[p].body[1].createdDate = Some(clock)
                /\ req'[p].body[1].resolutionDate = None]_vars

\* a create whose body said RESOLVED, with dates, was answered 201 and its record
\* is stored as NEW, created at the time of the call, without a resolutionDate
C19_Witness ==
    /\ Responded(1, "addItem")
    /\ req[1].code = 201
    /\ req[1].sent # None
    /\ req[1].sent[1].status = "RESOLVED"
    /\ req[1].sent[1].resolutionDate # None
    /\ req[1].sent[1].createdDate # None
    /\ req[1].sent[1].createdDate # Some(clock)
    /\ \E r \in Stored(item_table, req[1].user_id, TrimLower(req[1].item)) :
          /\ r.status = "NEW"
          /\ r.createdDate = clock
          /\ "resolutionDate" \notin DOMAIN r

---------------------------------------------------------------------------
(* C20 *)

\* the attributes of a record a resolve may write
ResolveWrites == {"status", "resolutionDate"}

\* C20: a resolve leaves the table with the same keys, every record but the
\* addressed one as it was, and every attribute of the addressed record other
\* than status and resolutionDate (user_id, item, display_item, createdDate) as
\* it was; a get, a list and a random pick leave the table as it was.
C20_ResolveFrame ==
    [][\A p \in Procs :
        /\ Runs(p, "resolveItem") =>
              LET key == PrimaryKey(req[p].user_id, TrimLower(req[p].item))
              IN  /\ DOMAIN item_table' = DOMAIN item_table
                  /\ \A k \in DOMAIN item_table \ {key} : item_table'[k] = item_table[k]
                  /\ key \in DOMAIN item_table =>
                        /\ DOMAIN item_table'[key] \ ResolveWrites
                              = DOMAIN item_table[key] \ ResolveWrites
                        /\ \A a \in DOMAIN item_table[key] \ ResolveWrites :
                              item_table'[key][a] = item_table[key][a]
        /\ \A op \in {"getItem", "listItems", "getRandomItem"} :
              Runs(p, op) => item_table' = item_table]_vars

\* a resolve was answered 200 for a record whose display_item differs from its
\* key and which was created before the resolve, next to another record
C20_Witness ==
    /\ Responded(1, "resolveItem")
    /\ req[1].code = 200
    /\ Cardinality(DOMAIN item_table) = 2
    /\ \E r \in Stored(item_table, req[1].user_id, TrimLower(req[1].item)) :
          /\ r.status = "RESOLVED"
          /\ r.display_item # r.item
          /\ r.createdDate < r.resolutionDate
          /\ _to_item_model(r) = req[1].body[1]

---------------------------------------------------------------------------
(* C14 *)

\* the places of an authorizer context that hold a non-empty user_id
NonEmptyPlaces(authz) == {i \in 1..Len(Places) : authz[Places[i]] \notin {None, Some("")}}

\* the first of them in the order of Places
FirstPlace(authz) ==
    CHOOSE i \in NonEmptyPlaces(authz) : \A j \in NonEmptyPlaces(authz) : i <= j

\* C14: a request whose authorizer context holds a non-empty user_id in none of
\* the four places is answered 401 by get_current_user without its endpoint
\* running and with the table as it was; any other request goes to its endpoint
\* with the user_id of the first place, in the order authorizer.user_id,
\* authorizer.lambda.user_id, authorizer.jwt.claims.sub, authorizer.claims.sub,
\* that holds a non-empty one; and an endpoint only ever runs with a non-empty
\* user_id.
C14_IdentityShortCircuits ==
    [][/\ item_table' # item_table =>
            \E p \in Procs : req[p].pc = "pending" /\ req[p].user_id # "" /\ req'[p].pc = "done"
       /\ \A p \in Procs :
        /\ (req[p].pc = "arrived" /\ req'[p] # req[p]) =>
              IF NonEmptyPlaces(req[p].authorizer) = {}
              THEN /\ req'[p].pc = "done"
                   /\ req'[p].code = 401
                   /\ item_table' = item_table
              ELSE /\ req'[p].pc = "pending"
                   /\ req'[p].op = req[p].op
                   /\ req'[p].user_id
                         = req[p].authorizer[Places[FirstPlace(req[p].authorizer)]][1]
        /\ \A op \in ItemOps \cup ListOps : Runs(p, op) => req[p].user_id # ""]_vars

\* a create whose authorizer context holds only empty user_ids was answered 401
\* while the table holds a record
C14_Witness ==
    /\ Responded(1, "addItem")
    /\ req[1].code = 401
    /\ NonEmptyPlaces(req[1].authorizer) = {}
    /\ \E i \in 1..Len(Places) : req[1].authorizer[Places[i]] = Some("")
    /\ item_table # EmptyTable

---------------------------------------------------------------------------
(* C15 *)

\* C15: every log line emitted while a request is handled, from its
\* set_request_id to its clear_request_id, carries the id set for that request:
\* not the id of another request and not a cleared id.
C15_LogLinesCarryOwnId ==
    \A line \in logged : line.request_id = Some(line.request)

---------------------------------------------------------------------------
(* C21 *)

\* the key the requests of the key race address
RaceKey == PrimaryKey(MainUser, <<"a">>)

\* what the table holds under the key: None, or the status and the display text
\* of its record
Held(tbl) ==
    IF RaceKey \in DOMAIN tbl
    THEN Some([status |-> tbl[RaceKey].status, display |-> tbl[RaceKey].display_item])
    ELSE None

\* one request run alone on what the key holds: what the key holds after it and
\* the status code of its response
Alone(held, op, item) ==
    CASE op = "addItem" ->
           IF held = None
           THEN [held |-> Some([status |-> "NEW", display |-> item]), code |-> 201]
           ELSE [held |-> held, code |-> 409]
      [] op = "resolveItem" ->
           IF held = None THEN [held |-> held, code |-> 404]
           ELSE [held |-> Some([held[1] EXCEPT !.status = "RESOLVED"]), code |-> 200]
      [] op = "deleteItem" ->
           IF held = None THEN [held |-> held, code |-> 404]
           ELSE [held |-> None, code |-> 204]

\* the requests of the slots S, run one after the other in some order from what
\* the key held, give the responses the slots hold and leave the key holding
\* what the table holds; a request whose store call failed changes nothing
RECURSIVE InSomeOrder(_, _)
InSomeOrder(held, S) ==
    IF S = {} THEN held = Held(item_table)
    ELSE \E p \in S :
            IF req[p].fault THEN InSomeOrder(held, S \ {p})
            ELSE LET alone == Alone(held, req[p].op, req[p].item)
                 IN  alone.code = req[p].code /\ InSomeOrder(alone.held, S \ {p})

\* the slots whose request has run
Answered == {p \in Procs : req[p].pc = "done"}

\* C21: in every interleaving of creates, resolves and deletes of one user on one
\* key, the responses of the requests that have run (those the backing store
\* answered) and what the table holds under the key are those of the same
\* requests run one after the other in some order; every stored record has a
\* display_item and a createdDate; and when the requests that have run are two
\* deletes, both answered by the store, of the one existing record, one is
\* answered 204 and the other 404.
C21_SerializedByStore ==
    /\ \A r \in Records(item_table) : {"display_item", "createdDate"} \subseteq DOMAIN r
    /\ InSomeOrder(Held(SeededTable), Answered)
    /\ \A p, q \in Procs :
          (/\ p # q
           /\ Answered = {p, q}
           /\ req[p].op = "deleteItem" /\ req[q].op = "deleteItem"
           /\ ~req[p].fault /\ ~req[q].fault)
          => {req[p].code, req[q].code} = {204, 404}

\* a delete and a resolve of the existing record ran, the delete first: the
\* delete was answered 204, the resolve 404, and the table holds no record
C21_Witness ==
    /\ \E p, q \in Procs :
          /\ Answered = {p, q}
          /\ req[p].op = "deleteItem" /\ ~req[p].fault /\ req[p].code = 204
          /\ req[q].op = "resolveItem" /\ ~req[q].fault /\ req[q].code = 404
    /\ item_table = EmptyTable

====
